---- MODULE Spec2Model ----
(***************************************************************************)
(* Request-scoped canonical logging / tracing core of insurflow.           *)
(*                                                                         *)
(*   src/unnamed/part_004           request context (AsyncLocalStorage)    *)
(*   src/src/server/tracing/logger.ts   canonical logger (emitLog, ...)    *)
(*   src/src/server/tracing/api.ts      withTracing wrapper                *)
(*   src/src/server/tracing/auth.ts     identity extraction                *)
(*   src/src/server/tracing/otel.ts     exporter installation              *)
(*   src/unnamed/part_005           Axiom Logger                           *)
(*                                                                         *)
(* JavaScript runs each continuation to completion, so one action is the   *)
(* code between two suspension points (await).  Every branch (logical unit *)
(* of work) owns the stack of contexts that AsyncLocalStorage.run has      *)
(* installed for it.                                                       *)
(***************************************************************************)
EXTENDS Integers, Sequences, FiniteSets, TLC

\* ------------------------------------------------------------------ bounds
MaxSteps == 2       \* operations a handler performs before it settles
MaxDepth == 3       \* contexts stacked in one branch (wrapper scope included)
MaxBgLogs == 1      \* emitLog calls made by the branch that has no scope
MaxAxiomOps == 3    \* calls made on one Axiom Logger
MaxClock == 3       \* ticks the clock makes

\* ------------------------------------------------------------------ values
\* A JavaScript value: t is its type, s its text, n its number, by the
\* branch whose code produced it ("sys" for values the library produces).
Units == {"A", "B"}
Bg == "bg"
Branches == Units \cup {Bg}

Val(t, s, n, by) == [t |-> t, s |-> s, n |-> n, by |-> by]
Str(s) == Val("str", s, 0, "sys")
StrBy(s, by) == Val("str", s, 0, by)
Num(n) == Val("num", "", n, "sys")
Undefined == Val("undefined", "", 0, "sys")
None == Val("none", "", 0, "sys")

LogLevels == {"debug", "info", "warn", "error", "fatal"}

\* Values a handler stores as attributes: a plain string, a number and a
\* BigInt (JSON.stringify throws on a BigInt).
UserValues(p) == {StrBy("gold", p), Val("num", "", 7, p), Val("bigint", "", 9, p)}
\* Attribute keys a handler uses; "level" is also a field of the event.
UserKeys == {"k", "level"}

Statuses == {200, 404, 500}

\* Values a handler throws: an Error, and a string that is not an Error.
JsError(name, msg, by) == [isError |-> TRUE, name |-> name, message |-> msg, by |-> by]
Thrown(p) == {JsError("Error", "boom", p),
              [isError |-> FALSE, name |-> "", message |-> "oops", by |-> p]}
NoError == [isError |-> FALSE, name |-> "", message |-> "", by |-> "sys"]
\* TypeErrors the runtime raises inside the logger.
StringifyError == JsError("TypeError", "Do not know how to serialize a BigInt", "sys")
UpperCaseError == JsError("TypeError", "toUpperCase is not a function", "sys")

\* g overrides f where both are defined (object spread {...f, ...g}).
Spread(f, g) == g @@ f

\* ------------------------------------------------------------------- state
VARIABLES
  nodeEnv,        \* process.env.NODE_ENV
  otlpEndpoint,   \* process.env.OTEL_EXPORTER_OTLP_ENDPOINT is set
  grafanaCreds,   \* GRAFANA_CLOUD_INSTANCE_ID and GRAFANA_CLOUD_API_TOKEN are set
  clock,          \* Date.now(), in ticks
  pc,             \* per unit: where its withTracing invocation stands
  store,          \* per branch: contexts installed by AsyncLocalStorage.run, innermost last
  serial,         \* per branch: contexts created so far (randomUUID never repeats)
  steps,          \* per unit: operations its handler has performed
  span,           \* per unit: the OpenTelemetry span of the invocation
  handled,        \* per unit: how the handler settled
  result,         \* per unit: how the wrapper's promise settled
  terminal,       \* per unit: events emitRequestLog handed to emitLog, in order
  phases,         \* per unit: the steps its invocation has taken, in order
  released,       \* per unit: its wrapper's context object once the scope has exited
  handed,         \* per unit: the request record of the TracingContext its handler got
  options,        \* the initialAttributes object of an options value callers reuse
  holders,        \* branches whose open context has that very object as its attributes
  detached,       \* per unit: the continuation its handler started and did not await
  lastWrite,      \* per unit: key by key, the value written last in its wrapper's scope
  lastCall,       \* per branch: the last emitLog call its own code made, and its outcome
  api,            \* per branch: the last call its own code made on the context module
  resolved,       \* per unit: how auth.api.getSession answered its identity lookup
  console,        \* per branch: console writes made by its code, in order
  otelLog,        \* per branch: records its code gave to the installed OTLP logger
  bgLogs,         \* emitLog calls made outside every scope
  axiom,          \* the Axiom client exists (AXIOM_TOKEN and AXIOM_DATASET set)
  axContext,      \* Logger.context
  axIngest,       \* calls of axiom.ingest: the event and whether it was accepted
  axConsole,      \* console writes of the Axiom Logger
  axOps,          \* calls made on the Axiom Logger; the clock reads axOps
  axRaised,       \* a Logger method rejected
  mwResult        \* how the last axiomMiddleware call settled

vars == <<nodeEnv, otlpEndpoint, grafanaCreds, clock, pc, store, serial, steps, span,
          handled, result, terminal, phases, released, handed, options, holders, detached,
          lastWrite, lastCall, api, resolved, console, otelLog, bgLogs, axiom, axContext, axIngest, axConsole, axOps, axRaised, mwResult>>

envVars == <<nodeEnv, otlpEndpoint, grafanaCreds, clock>>
callerVars == <<options, holders>>
tracingVars == <<pc, store, serial, steps, span, handled, result, terminal, phases,
                 released, handed, callerVars, detached, lastWrite, lastCall, api, resolved,
                 console, otelLog, bgLogs>>
axiomVars == <<axiom, axContext, axIngest, axConsole, axOps, axRaised, mwResult>>

\* initializeOTel registers a LoggerProvider only when it built a log exporter.
LogExporterInstalled == otlpEndpoint /\ grafanaCreds

\* --------------------------------------------------------- request context
NoContext ==
  [requestId |-> None, traceId |-> None, spanId |-> None, userId |-> Undefined,
   sessionId |-> Undefined, method |-> None, endpoint |-> None,
   startTime |-> 0, attributes |-> <<>>]

\* requestContextStorage.getStore() as seen by branch p: the stack of the
\* contexts that run() installed for p; its last element is the store.
StoreOfShared(p) == store["A"]
StoreOf(p) == store[p]

Current(st) == IF st = <<>> THEN NoContext ELSE st[Len(st)]
HasContext(st) == st # <<>>
GetRequestContext(p) == Current(StoreOf(p))

\* requireRequestContext: throws when getStore() gives nothing.
RequireRequestContextNeverRaises(st) == [raised |-> FALSE, value |-> Current(st)]
RequireRequestContext(st) == [raised |-> ~HasContext(st), value |-> Current(st)]

ReplaceCurrent(st, ctx) == [st EXCEPT ![Len(st)] = ctx]

AddRequestAttributesKeepFirst(st, attrs) ==
  IF HasContext(st)
  THEN ReplaceCurrent(st, [Current(st) EXCEPT !.attributes = Spread(attrs, @)])
  ELSE st

AddRequestAttributesReplacing(st, attrs) ==
  IF HasContext(st)
  THEN ReplaceCurrent(st, [Current(st) EXCEPT !.attributes = attrs])
  ELSE st

AddRequestAttributes(st, attrs) ==
  IF HasContext(st)
  THEN ReplaceCurrent(st, [Current(st) EXCEPT !.attributes = Spread(@, attrs)])
  ELSE st

AddRequestAttributeCreates(st, key, value) ==
  IF HasContext(st)
  THEN ReplaceCurrent(st, [Current(st) EXCEPT !.attributes = Spread(@, (key :> value))])
  ELSE <<[NoContext EXCEPT !.attributes = (key :> value)]>>

AddRequestAttribute(st, key, value) ==
  IF HasContext(st)
  THEN ReplaceCurrent(st, [Current(st) EXCEPT !.attributes = Spread(@, (key :> value))])
  ELSE st

Truthy(v) == v.t \notin {"undefined", "none"} /\ ~(v.t = "str" /\ v.s = "")

SetUserContext(st, userId, sessionId) ==
  IF HasContext(st)
  THEN ReplaceCurrent(st,
         [Current(st) EXCEPT !.userId = userId,
                             !.sessionId = IF Truthy(sessionId) THEN sessionId ELSE @])
  ELSE st

UpdateTraceContextSwapped(st, sp) ==
  IF HasContext(st)
  THEN ReplaceCurrent(st, [Current(st) EXCEPT !.traceId = sp.spanId, !.spanId = sp.traceId])
  ELSE st

UpdateTraceContext(st, sp) ==
  IF HasContext(st)
  THEN ReplaceCurrent(st, [Current(st) EXCEPT !.traceId = sp.traceId, !.spanId = sp.spanId])
  ELSE st

GenerateRequestId(p, n) == Val("str", "req", n, p)

\* options.initialAttributes is <<>> when the caller passed none.
CreateRequestContextAtEpoch(p, n, method, endpoint, initialAttributes, activeSpan) ==
  [requestId |-> GenerateRequestId(p, n),
   traceId |-> IF activeSpan.traceId = None THEN Str("no-trace") ELSE activeSpan.traceId,
   spanId |-> IF activeSpan.spanId = None THEN Str("no-span") ELSE activeSpan.spanId,
   userId |-> Undefined,
   sessionId |-> Undefined,
   method |-> method,
   endpoint |-> endpoint,
   startTime |-> 0,
   attributes |-> initialAttributes]

CreateRequestContext(p, n, method, endpoint, initialAttributes, activeSpan) ==
  [requestId |-> GenerateRequestId(p, n),
   traceId |-> IF activeSpan.traceId = None THEN Str("no-trace") ELSE activeSpan.traceId,
   spanId |-> IF activeSpan.spanId = None THEN Str("no-span") ELSE activeSpan.spanId,
   userId |-> Undefined,
   sessionId |-> Undefined,
   method |-> method,
   endpoint |-> endpoint,
   startTime |-> clock,
   attributes |-> initialAttributes]

\* AsyncLocalStorage.run(ctx, fn): ctx is the store while fn runs, and the
\* store that was current before is current again when fn has returned or thrown.
EnterScope(st, ctx) == Append(st, ctx)
ExitScopeLeaks(st) == IF Len(st) > 1 THEN SubSeq(st, 1, Len(st) - 1) ELSE st
ExitScopeToRoot(st) == IF Len(st) > 1 THEN <<st[1]>> ELSE <<>>
ExitScope(st) == SubSeq(st, 1, Len(st) - 1)

\* ------------------------------------------------------------------ logger
\* What a run of logger code has done so far: console writes, records given
\* to the OTLP logger, the event emitLog built last, the events
\* emitRequestLog had emitted, and the exception in flight, if any.
Effects(con, otl, trm) ==
  [con |-> con, otl |-> otl, trm |-> trm, last |-> <<>>, thrown |-> FALSE, err |-> NoError]

Throw(eff, e) == [eff EXCEPT !.thrown = TRUE, !.err = e]

BaseFields == {"timestamp", "duration_ms", "request_id", "trace_id", "span_id",
               "user_id", "session_id", "method", "endpoint", "status_code",
               "error", "level", "message"}

Field(event, key) == IF key \in DOMAIN event THEN event[key] ELSE Undefined

\* new Date().toISOString() and getRequestDuration(): the time of the call
\* and the time elapsed since the context was created.
Timestamp == Val("str", "iso", clock, "sys")

\* getRequestDuration() as buildCanonicalEvent calls it: emitLog passes the
\* store as ctx, so the store it reads is ctx.
GetRequestDuration(ctx) == Num(clock - ctx.startTime)

BuildCanonicalEventAttributesLast(level, message, ctx, additionalData) ==
  Spread(Spread([timestamp |-> Timestamp,
                 duration_ms |-> GetRequestDuration(ctx),
                 request_id |-> ctx.requestId,
                 trace_id |-> ctx.traceId,
                 span_id |-> ctx.spanId,
                 user_id |-> ctx.userId,
                 session_id |-> ctx.sessionId,
                 method |-> ctx.method,
                 endpoint |-> ctx.endpoint,
                 level |-> Str(level),
                 message |-> Str(message)],
                additionalData),
         ctx.attributes)

BuildCanonicalEvent(level, message, ctx, additionalData) ==
  Spread(Spread([timestamp |-> Timestamp,
                 duration_ms |-> GetRequestDuration(ctx),
                 request_id |-> ctx.requestId,
                 trace_id |-> ctx.traceId,
                 span_id |-> ctx.spanId,
                 user_id |-> ctx.userId,
                 session_id |-> ctx.sessionId,
                 method |-> ctx.method,
                 endpoint |-> ctx.endpoint,
                 level |-> Str(level),
                 message |-> Str(message)],
                ctx.attributes),
         additionalData)

\* JSON.stringify throws a TypeError on a BigInt.
Serializable(event) == \A k \in DOMAIN event : event[k].t # "bigint"

ConsoleChannel(level) ==
  CASE level = "debug" -> "debug"
    [] level = "info" -> "info"
    [] level = "warn" -> "warn"
    [] level \in {"error", "fatal"} -> "error"

\* The switch has no default: a level that is no LogLevel writes nothing.
EmitToConsole(event, eff) ==
  IF ~Serializable(event) THEN Throw(eff, StringifyError)
  ELSE LET lv == Field(event, "level") IN
       IF lv.t = "str" /\ lv.s \in LogLevels
       THEN [eff EXCEPT !.con = Append(@, [channel |-> ConsoleChannel(lv.s), event |-> event])]
       ELSE eff

OTelAttributes(event) ==
  LET flat == ("request.id" :> Field(event, "request_id"))
              @@ ("trace.id" :> Field(event, "trace_id"))
              @@ ("span.id" :> Field(event, "span_id"))
              @@ ("user.id" :> Field(event, "user_id"))
              @@ ("session.id" :> Field(event, "session_id"))
              @@ ("http.method" :> Field(event, "method"))
              @@ ("http.route" :> Field(event, "endpoint"))
              @@ ("http.status_code" :> Field(event, "status_code"))
              @@ ("duration_ms" :> Field(event, "duration_ms"))
      err == IF Truthy(Field(event, "error"))
             THEN ("error.message" :> Field(event, "error")) ELSE <<>>
      rest == [k \in (DOMAIN event) \ BaseFields |-> event[k]]
  IN Spread(Spread(flat, err), rest)

\* event.level.toUpperCase() throws a TypeError when level is not a string.
\* logs.getLogger returns a no-op logger while no LoggerProvider is registered.
EmitToOTel(event, eff) ==
  LET lv == Field(event, "level") IN
  IF lv.t # "str" THEN Throw(eff, UpperCaseError)
  ELSE IF LogExporterInstalled
       THEN [eff EXCEPT !.otl = Append(@, [severityText |-> lv.s,
                                           body |-> Field(event, "message"),
                                           attributes |-> OTelAttributes(event)])]
       ELSE eff

IsConsoleOnly == nodeEnv = "development" /\ ~otlpEndpoint

SimpleEvent(level, message, data) ==
  Spread([timestamp |-> Timestamp,
          duration_ms |-> Num(0),
          request_id |-> Str("no-context"),
          trace_id |-> Str("no-trace"),
          span_id |-> Str("no-span"),
          method |-> Str("N/A"),
          endpoint |-> Str("N/A"),
          level |-> Str(level),
          message |-> Str(message)],
         data)

EmitLog(st, level, message, data, eff) ==
  IF ~HasContext(st)
  THEN LET simpleEvent == SimpleEvent(level, message, data)
       IN EmitToConsole(simpleEvent, [eff EXCEPT !.last = simpleEvent])
  ELSE LET event == BuildCanonicalEvent(level, message, Current(st), data)
           e0 == [eff EXCEPT !.last = event]
           e1 == IF IsConsoleOnly \/ nodeEnv = "development"
                 THEN EmitToConsole(event, e0) ELSE e0
       IN IF e1.thrown THEN e1
          ELSE IF ~IsConsoleOnly THEN EmitToOTel(event, e1) ELSE e1

LevelForStatus(statusCode) ==
  IF statusCode >= 500 THEN "error"
  ELSE IF statusCode >= 400 THEN "warn" ELSE "info"

\* Without a context emitRequestLog only warns on the console and returns.
EmitRequestLog(st, statusCode, message, eff) ==
  IF ~HasContext(st)
  THEN [eff EXCEPT !.con = Append(@, [channel |-> "warn", event |-> <<>>])]
  ELSE LET e == EmitLog(st, LevelForStatus(statusCode), message,
                        [status_code |-> Num(statusCode)], eff)
       IN [e EXCEPT !.trm = Append(@, e.last)]

\* ------------------------------------------------------------- withTracing
NoSpan == [traceId |-> None, spanId |-> None, status |-> "UNSET", statusMessage |-> "",
           exceptions |-> 0, ended |-> 0, attrs |-> <<>>]

\* tracer.startActiveSpan: a span with ids of its own, active for the callback.
StartActiveSpan(p) ==
  [NoSpan EXCEPT !.traceId = StrBy("trace", p), !.spanId = StrBy("span", p)]

SpanSetAttribute(sp, key, value) == [sp EXCEPT !.attrs = Spread(@, (key :> value))]

\* String(value)
StringOf(v) == [v EXCEPT !.t = "str"]

NotSettled == [kind |-> "none", status |-> 0, err |-> NoError]
Returned(s) == [kind |-> "returned", status |-> s, err |-> NoError]
Threw(e) == [kind |-> "threw", status |-> 0, err |-> e]
Resolved(s) == [kind |-> "resolved", status |-> s, err |-> NoError]
Rejected(e) == [kind |-> "rejected", status |-> 0, err |-> e]

FailedMessage(m) ==
  CASE m = "boom" -> "Request failed: boom"
    [] m = "oops" -> "Request failed: oops"
    [] m = StringifyError.message -> "Request failed: Do not know how to serialize a BigInt"
    [] m = UpperCaseError.message -> "Request failed: toUpperCase is not a function"

\* `HTTP ${statusCode}`
HttpMessage(statusCode) ==
  CASE statusCode = 500 -> "HTTP 500"
    [] statusCode = 404 -> "HTTP 404"
    [] statusCode = 200 -> "HTTP 200"

\* catch (error) { ... throw error; } of withTracing (api.ts 197-221).
CatchBlock(st, sp, eff, error) ==
  LET err == IF error.isError THEN error ELSE JsError("Error", error.message, error.by)
      sp1 == SpanSetAttribute([sp EXCEPT !.exceptions = @ + 1,
                                         !.status = "ERROR",
                                         !.statusMessage = err.message],
                              "http.status_code", Num(500))
      st1 == AddRequestAttributes(st,
               ("error.name" :> StrBy(err.name, err.by))
               @@ ("error.message" :> StrBy(err.message, err.by))
               @@ ("error.stack" :> StrBy("stack", err.by)))
      e2 == EmitRequestLog(st1, 500, FailedMessage(err.message), eff)
  IN [st |-> st1, sp |-> sp1, eff |-> e2,
      result |-> IF e2.thrown THEN Rejected(e2.err) ELSE Rejected(error),
      written |-> ("error.name" :> StrBy(err.name, err.by))
                  @@ ("error.message" :> StrBy(err.message, err.by))
                  @@ ("error.stack" :> StrBy("stack", err.by))]

\* The try block after `await handler(request, ctx)` has produced a response
\* (api.ts 174-196); an exception thrown in it is caught by the catch block.
AfterResponse(st, sp, eff, statusCode) ==
  LET sp1 == [SpanSetAttribute(SpanSetAttribute(sp, "http.status_code", Num(statusCode)),
                               "http.response_content_length", Num(0))
              EXCEPT !.status = IF statusCode >= 500 THEN "ERROR" ELSE "OK",
                     !.statusMessage = IF statusCode >= 500 THEN HttpMessage(statusCode) ELSE ""]
      e1 == EmitRequestLog(st, statusCode, "Request completed", eff)
  IN IF e1.thrown
     THEN CatchBlock(st, sp1, [e1 EXCEPT !.thrown = FALSE, !.err = NoError], e1.err)
     ELSE [st |-> st, sp |-> sp1, eff |-> e1, result |-> Resolved(statusCode),
           written |-> <<>>]

\* An exception leaves every scope entered inside the handler.
RECURSIVE Unwind(_)
Unwind(st) == IF Len(st) > 1 THEN Unwind(ExitScope(st)) ELSE st

\* The try block, or the try and the catch block, called emitRequestLog n
\* times; `finally` then ends the span.
Emitted(n) == [i \in 1..n |-> "EventEmitted"]
CompletedSpanFirst(ph, n) == ph \o <<"SpanClosed">> \o Emitted(n)
Completed(ph, n) == ph \o Emitted(n) \o <<"SpanClosed">>

\* The handler has settled as hd: the rest of the wrapper runs without
\* suspending, `finally { span.end() }` included, and the scope is left.
Settle(p, st, eff, hd) ==
  \E r \in {IF hd.kind = "returned"
            THEN AfterResponse(st, span[p], eff, hd.status)
            ELSE CatchBlock(Unwind(st), span[p], eff, hd.err)} :
     /\ pc' = [pc EXCEPT ![p] = "done"]
     /\ handled' = [handled EXCEPT ![p] = hd]
     /\ result' = [result EXCEPT ![p] = r.result]
     /\ span' = [span EXCEPT ![p] = [r.sp EXCEPT !.ended = @ + 1]]
     /\ store' = [store EXCEPT ![p] = ExitScope(r.st)]
     /\ console' = [console EXCEPT ![p] = r.eff.con]
     /\ otelLog' = [otelLog EXCEPT ![p] = r.eff.otl]
     /\ terminal' = [terminal EXCEPT ![p] = r.eff.trm]
     /\ phases' = [phases EXCEPT ![p] = Completed(@, Len(r.eff.trm) - Len(eff.trm))]
     /\ released' = [released EXCEPT ![p] = Current(r.st)]
     /\ lastWrite' = [lastWrite EXCEPT ![p] = Spread(@, r.written)]

EffectsOf(p) == Effects(console[p], otelLog[p], terminal[p])

\* startActiveSpan, then withRequestContext, then either the identity
\* lookup or, when extractUser is off, the handler at once.
Opened(extractUser) ==
  <<"SpanOpen", "ContextOpen">>
  \o (IF extractUser THEN <<"IdentityResolution">> ELSE <<"HandlerRunning">>)

\* The request record of the TracingContext built just before the handler is
\* called (api.ts 148-170): a literal of its own, not the store.
TracingRequest(sp, method, endpoint) ==
  [requestId |-> Str(""), traceId |-> sp.traceId, spanId |-> sp.spanId,
   userId |-> Undefined, sessionId |-> Undefined, method |-> method,
   endpoint |-> endpoint, startTime |-> clock, attributes |-> <<>>]

\* (variant used to test C10) the canonical event is emitted before the handler runs.
InvokeEmitsFirst(p, extractUser) ==
  /\ pc[p] = "idle"
  /\ LET sp == StartActiveSpan(p)
         ctx == CreateRequestContext(p, serial[p] + 1, StrBy("GET", p), StrBy("/api", p),
                  ("http.url" :> StrBy("url", p)) @@ ("http.user_agent" :> StrBy("ua", p)),
                  sp)
         st == UpdateTraceContext(EnterScope(StoreOf(p), ctx), sp)
         eff == EmitRequestLog(st, 200, "Request completed", EffectsOf(p))
     IN /\ span' = [span EXCEPT ![p] = sp]
        /\ store' = [store EXCEPT ![p] = st]
        /\ console' = [console EXCEPT ![p] = eff.con]
        /\ otelLog' = [otelLog EXCEPT ![p] = eff.otl]
        /\ terminal' = [terminal EXCEPT ![p] = eff.trm]
  /\ serial' = [serial EXCEPT ![p] = @ + 1]
  /\ pc' = [pc EXCEPT ![p] = IF extractUser THEN "identity" ELSE "handler"]
  /\ phases' = [phases EXCEPT ![p] = Opened(extractUser)]
  /\ handed' = [handed EXCEPT ![p] =
                  IF extractUser THEN @
                  ELSE TracingRequest(StartActiveSpan(p), StrBy("GET", p), StrBy("/api", p))]
  /\ UNCHANGED <<steps, handled, result, released, bgLogs>>
  /\ UNCHANGED <<envVars, axiomVars, callerVars, resolved, api, detached, lastCall, lastWrite>>

\* The returned function is called: span, scope, updateTraceContext; it
\* suspends at `await setUserContextFromSession()` when extractUser is set,
\* otherwise it runs on into the handler.
Invoke(p, extractUser) ==
  /\ pc[p] = "idle"
  /\ LET sp == StartActiveSpan(p)
         ctx == CreateRequestContext(p, serial[p] + 1, StrBy("GET", p), StrBy("/api", p),
                  ("http.url" :> StrBy("url", p)) @@ ("http.user_agent" :> StrBy("ua", p)),
                  sp)
     IN /\ span' = [span EXCEPT ![p] = sp]
        /\ store' = [store EXCEPT ![p] = UpdateTraceContext(EnterScope(StoreOf(p), ctx), sp)]
  /\ serial' = [serial EXCEPT ![p] = @ + 1]
  /\ pc' = [pc EXCEPT ![p] = IF extractUser THEN "identity" ELSE "handler"]
  /\ phases' = [phases EXCEPT ![p] = Opened(extractUser)]
  /\ handed' = [handed EXCEPT ![p] =
                  IF extractUser THEN @
                  ELSE TracingRequest(StartActiveSpan(p), StrBy("GET", p), StrBy("/api", p))]
  /\ UNCHANGED <<steps, handled, result, terminal, released, console, otelLog, bgLogs>>
  /\ UNCHANGED <<envVars, axiomVars, callerVars, resolved, api, detached, lastCall, lastWrite>>

\* getUserFromSession: a session with a user, no session, or getSession
\* throwing, which its catch turns into null (auth.ts 26-46).
GetUserFromSession(p, session) ==
  IF session = "user"
  THEN [found |-> TRUE, userId |-> StrBy("user", p), sessionId |-> StrBy("session", p),
        email |-> StrBy("email", p), name |-> Undefined]
  ELSE [found |-> FALSE, userId |-> Undefined, sessionId |-> Undefined,
        email |-> Undefined, name |-> Undefined]

\* The writes of attrs by code of unit p, recorded key by key when they are
\* made in the wrapper's own scope (writes in a nested scope belong to it).
Written(p, attrs) ==
  IF Len(StoreOf(p)) = 1 THEN Spread(lastWrite[p], attrs) ELSE lastWrite[p]

UserAttributes(userInfo) ==
  ("user.email" :> userInfo.email) @@ ("user.name" :> userInfo.name)

SetUserContextFromSession(st, userInfo) ==
  IF userInfo.found
  THEN AddRequestAttributes(SetUserContext(st, userInfo.userId, userInfo.sessionId),
                            UserAttributes(userInfo))
  ELSE st

ResolveIdentity(p, session) ==
  /\ pc[p] = "identity"
  /\ store' = [store EXCEPT ![p] =
                 SetUserContextFromSession(StoreOf(p), GetUserFromSession(p, session))]
  /\ pc' = [pc EXCEPT ![p] = "handler"]
  /\ phases' = [phases EXCEPT ![p] = Append(@, "HandlerRunning")]
  /\ UNCHANGED <<serial, steps, span, handled, result, terminal, released, console, otelLog, bgLogs>>
  /\ LET userInfo == GetUserFromSession(p, session) IN
       lastWrite' = [lastWrite EXCEPT ![p] =
                       IF userInfo.found THEN Written(p, UserAttributes(userInfo)) ELSE @]
  /\ resolved' = [resolved EXCEPT ![p] = session]
  /\ handed' = [handed EXCEPT ![p] =
                  TracingRequest(span[p], StrBy("GET", p), StrBy("/api", p))]
  /\ UNCHANGED <<envVars, axiomVars, callerVars, api, detached, lastCall>>

\* ctx.addAttribute(key, value) called by the handler.
CtxAddAttribute(p, key, value) ==
  /\ pc[p] = "handler"
  /\ steps[p] < MaxSteps
  /\ store' = [store EXCEPT ![p] = AddRequestAttributes(StoreOf(p), (key :> value))]
  /\ span' = [span EXCEPT ![p] = SpanSetAttribute(@, key, StringOf(value))]
  /\ steps' = [steps EXCEPT ![p] = @ + 1]
  /\ UNCHANGED <<pc, serial, handled, result, terminal, phases, released, console, otelLog, bgLogs>>
  /\ lastWrite' = [lastWrite EXCEPT ![p] = Written(p, (key :> value))]
  /\ UNCHANGED <<envVars, axiomVars, callerVars, handed, resolved, api, detached, lastCall>>

\* An emitLog call: its arguments, the event it built and whether it raised.
NoCall == [level |-> "", message |-> "", data |-> <<>>, event |-> <<>>, raised |-> FALSE]
Call(level, message, data, eff) ==
  [level |-> level, message |-> message, data |-> data, event |-> eff.last,
   raised |-> eff.thrown]

\* Extra fields a caller passes to the facade or to emitLog: none, a field
\* of its own, fields named like fields of the event, a BigInt.
ExtraData(b) ==
  {<<>>,
   ("k" :> StrBy("extra", b)),
   ("request_id" :> StrBy("extra", b)),
   ("level" :> StrBy("extra", b)),
   ("n" :> Val("bigint", "", 9, b))}

\* ctx.addAttributes(attributes) called by the handler.
CtxAddAttributes(p, attrs) ==
  /\ pc[p] = "handler"
  /\ steps[p] < MaxSteps
  /\ store' = [store EXCEPT ![p] = AddRequestAttributes(StoreOf(p), attrs)]
  /\ span' = [span EXCEPT ![p].attrs = Spread(@, [k \in DOMAIN attrs |-> StringOf(attrs[k])])]
  /\ steps' = [steps EXCEPT ![p] = @ + 1]
  /\ lastWrite' = [lastWrite EXCEPT ![p] = Written(p, attrs)]
  /\ UNCHANGED <<pc, serial, handled, result, terminal, phases, released, console, otelLog, bgLogs>>
  /\ UNCHANGED <<envVars, axiomVars, callerVars, handed, resolved, api, detached, lastCall>>

\* addRequestAttribute(key, value) called by code the handler runs.
AddAttribute(p, key, value) ==
  /\ pc[p] = "handler"
  /\ steps[p] < MaxSteps
  /\ store' = [store EXCEPT ![p] = AddRequestAttribute(StoreOf(p), key, value)]
  /\ steps' = [steps EXCEPT ![p] = @ + 1]
  /\ lastWrite' = [lastWrite EXCEPT ![p] = Written(p, (key :> value))]
  /\ UNCHANGED <<pc, serial, span, handled, result, terminal, phases, released, console,
                 otelLog, bgLogs>>
  /\ UNCHANGED <<envVars, axiomVars, callerVars, handed, resolved, api, detached, lastCall>>

\* addRequestAttributes(attributes) called by code the handler runs.
AddAttributes(p, attrs) ==
  /\ pc[p] = "handler"
  /\ steps[p] < MaxSteps
  /\ store' = [store EXCEPT ![p] = AddRequestAttributes(StoreOf(p), attrs)]
  /\ steps' = [steps EXCEPT ![p] = @ + 1]
  /\ lastWrite' = [lastWrite EXCEPT ![p] = Written(p, attrs)]
  /\ UNCHANGED <<pc, serial, span, handled, result, terminal, phases, released, console,
                 otelLog, bgLogs>>
  /\ UNCHANGED <<envVars, axiomVars, callerVars, handed, resolved, api, detached, lastCall>>

\* setUserContext(userId, sessionId) called by code the handler runs.
SetUser(p, userId, sessionId) ==
  /\ pc[p] = "handler"
  /\ steps[p] < MaxSteps
  /\ store' = [store EXCEPT ![p] = SetUserContext(StoreOf(p), userId, sessionId)]
  /\ steps' = [steps EXCEPT ![p] = @ + 1]
  /\ UNCHANGED <<pc, serial, span, handled, result, terminal, phases, released, console,
                 otelLog, bgLogs>>
  /\ UNCHANGED <<envVars, axiomVars, callerVars, handed, resolved, api, detached, lastCall, lastWrite>>

\* Identities setUserContext is called with; the session id is optional.
UserIds(p) == {StrBy("user", p), StrBy("other", p)}
SessionIds(p) == {Undefined, StrBy("session", p), StrBy("session2", p)}

\* Keys and values the four write operations are called with; status_code
\* is also the extra field emitRequestLog passes.
WriteKeys == {"k", "status_code"}
WriteValues(p) == {StrBy("gold", p), Val("num", "", 7, p)}
WriteBatches(p) ==
  {("k" :> v) @@ ("status_code" :> w) : v \in WriteValues(p), w \in WriteValues(p)}

\* log.info(...) / log.error(...) called by the handler; an exception of the
\* logger is one the handler throws.
LogFacade(p, level, data) ==
  /\ pc[p] = "handler"
  /\ steps[p] < MaxSteps
  /\ \E eff \in {EmitLog(StoreOf(p), level, "handler log", data, EffectsOf(p))} :
        /\ lastCall' = [lastCall EXCEPT ![p] = Call(level, "handler log", data, eff)]
        /\ IF eff.thrown
           THEN /\ Settle(p, StoreOf(p), [eff EXCEPT !.thrown = FALSE, !.err = NoError],
                          Threw(eff.err))
                /\ UNCHANGED steps
           ELSE /\ console' = [console EXCEPT ![p] = eff.con]
                /\ otelLog' = [otelLog EXCEPT ![p] = eff.otl]
                /\ steps' = [steps EXCEPT ![p] = @ + 1]
                /\ UNCHANGED <<pc, store, span, handled, result, terminal, phases, released,
                               lastWrite>>
  /\ UNCHANGED <<serial, bgLogs>>
  /\ UNCHANGED <<envVars, axiomVars, callerVars, handed, resolved, api, detached>>

\* The handler calls withRequestContext(options, fn) for a nested scope.
NestedEnter(p) ==
  /\ pc[p] = "handler"
  /\ steps[p] < MaxSteps
  /\ Len(StoreOf(p)) < MaxDepth
  /\ store' = [store EXCEPT ![p] =
                 EnterScope(StoreOf(p),
                            CreateRequestContext(p, serial[p] + 1, StrBy("POST", p),
                                                 StrBy("/inner", p), <<>>, span[p]))]
  /\ serial' = [serial EXCEPT ![p] = @ + 1]
  /\ steps' = [steps EXCEPT ![p] = @ + 1]
  /\ UNCHANGED <<pc, span, handled, result, terminal, phases, released, console, otelLog, bgLogs>>
  /\ UNCHANGED <<envVars, axiomVars, callerVars, handed, resolved, api, detached, lastCall, lastWrite>>

\* The callback of the innermost nested scope returns.
NestedExit(p) ==
  /\ pc[p] = "handler"
  /\ Len(StoreOf(p)) > 1
  /\ store' = [store EXCEPT ![p] = ExitScope(StoreOf(p))]
  /\ UNCHANGED <<pc, serial, steps, span, handled, result, terminal, phases, released, console, otelLog, bgLogs>>
  /\ UNCHANGED <<envVars, axiomVars, callerVars, handed, resolved, api, detached, lastCall, lastWrite>>

HandlerReturns(p, statusCode) ==
  /\ pc[p] = "handler"
  /\ Len(StoreOf(p)) = 1
  /\ Settle(p, StoreOf(p), EffectsOf(p), Returned(statusCode))
  /\ UNCHANGED <<serial, steps, bgLogs>>
  /\ UNCHANGED <<envVars, axiomVars, callerVars, handed, resolved, api, detached, lastCall>>

HandlerThrows(p, e) ==
  /\ pc[p] = "handler"
  /\ Settle(p, StoreOf(p), EffectsOf(p), Threw(e))
  /\ UNCHANGED <<serial, steps, bgLogs>>
  /\ UNCHANGED <<envVars, axiomVars, callerVars, handed, resolved, api, detached, lastCall>>

\* The promise the handler returned settles; the rest of the wrapper is the
\* continuation of `await handler(request, ctx)`, which the event loop runs
\* later as a job of its own.
HandlerSettles(p, hd) ==
  /\ pc[p] = "handler"
  /\ hd.kind = "returned" => Len(StoreOf(p)) = 1
  /\ pc' = [pc EXCEPT ![p] = "settled"]
  /\ handled' = [handled EXCEPT ![p] = hd]
  /\ UNCHANGED <<store, serial, steps, span, result, terminal, phases, released, console, otelLog, bgLogs>>
  /\ UNCHANGED <<envVars, axiomVars, callerVars, handed, resolved, api, detached, lastCall, lastWrite>>

Resume(p) ==
  /\ pc[p] = "settled"
  /\ Settle(p, StoreOf(p), EffectsOf(p), handled[p])
  /\ UNCHANGED <<serial, steps, bgLogs>>
  /\ UNCHANGED <<envVars, axiomVars, callerVars, handed, resolved, api, detached, lastCall>>

\* The handler starts an asynchronous continuation and does not await it
\* (`void later()`); AsyncLocalStorage gives that continuation the store that
\* was current when it was started, for as long as it runs.
Spawn(p) ==
  /\ pc[p] = "handler"
  /\ Len(StoreOf(p)) = 1
  /\ detached[p] = "none"
  /\ detached' = [detached EXCEPT ![p] = "pending"]
  /\ UNCHANGED <<pc, store, serial, steps, span, handled, result, terminal, phases, released,
                 console, otelLog, bgLogs>>
  /\ UNCHANGED <<envVars, axiomVars, callerVars, handed, resolved, api, lastCall, lastWrite>>

\* The context object of the wrapper's scope: the store of the scope while it
\* is open, the object the continuation still holds afterwards.
WrapperContext(p) == IF HasContext(store[p]) THEN store[p][1] ELSE released[p]

\* What the continuation calls when it runs: addRequestAttribute,
\* setUserContext or updateTraceContext with a span of its own.
DetachedCall(st, p, op) ==
  CASE op = "addRequestAttribute" -> AddRequestAttribute(st, "late", StrBy("late", p))
    [] op = "setUserContext" -> SetUserContext(st, StrBy("other", p), Undefined)
    [] op = "updateTraceContext" ->
         UpdateTraceContext(st, [NoSpan EXCEPT !.traceId = StrBy("trace2", p),
                                               !.spanId = StrBy("span2", p)])

\* The continuation runs, while the handler is still running or at any time
\* after the wrapper has returned.
DetachedRun(p, op) ==
  /\ detached[p] = "pending"
  /\ pc[p] \in {"handler", "done"}
  /\ LET ctx == Current(DetachedCall(<<WrapperContext(p)>>, p, op)) IN
       IF HasContext(store[p])
       THEN store' = [store EXCEPT ![p][1] = ctx] /\ UNCHANGED released
       ELSE released' = [released EXCEPT ![p] = ctx] /\ UNCHANGED store
  /\ detached' = [detached EXCEPT ![p] = "ran"]
  /\ UNCHANGED <<pc, serial, steps, span, handled, result, terminal, phases,
                 console, otelLog, bgLogs>>
  /\ lastWrite' = [lastWrite EXCEPT ![p] =
                    IF op = "addRequestAttribute" /\ HasContext(store[p])
                    THEN Spread(@, ("late" :> StrBy("late", p))) ELSE @]
  /\ UNCHANGED <<envVars, axiomVars, callerVars, handed, resolved, api, lastCall>>

DetachedOps == {"addRequestAttribute", "setUserContext", "updateTraceContext"}

\* A call on the context module: the operation, whether it raised, and the
\* context it returned (NoContext for undefined and for the void operations).
NoApiCall == [op |-> "", raised |-> FALSE, value |-> NoContext]
ApiCall(op, raised, value) == [op |-> op, raised |-> raised, value |-> value]

ReadOps == {"getRequestContext", "requireRequestContext"}
MutatorOps == {"addRequestAttribute", "addRequestAttributes", "setUserContext",
               "updateTraceContext"}

\* A span that code of the handler starts inside the invocation's span: the
\* same trace, a span id of its own.
ChildSpan(p) == [NoSpan EXCEPT !.traceId = StrBy("trace", p), !.spanId = StrBy("child", p)]

\* updateTraceContext(span) called by code the handler runs, with a span it
\* has started itself.
UpdateTrace(p) ==
  /\ pc[p] = "handler"
  /\ steps[p] < MaxSteps
  /\ store' = [store EXCEPT ![p] = UpdateTraceContext(StoreOf(p), ChildSpan(p))]
  /\ steps' = [steps EXCEPT ![p] = @ + 1]
  /\ api' = [api EXCEPT ![p] = ApiCall("updateTraceContext", FALSE, NoContext)]
  /\ UNCHANGED <<pc, serial, span, handled, result, terminal, phases, released, console,
                 otelLog, bgLogs>>
  /\ UNCHANGED <<envVars, axiomVars, callerVars, handed, resolved, detached, lastCall, lastWrite>>

\* The store of branch b after its code has called the mutator op.
Mutated(st, b, op) ==
  CASE op = "addRequestAttribute" -> AddRequestAttribute(st, "k", StrBy("gold", b))
    [] op = "addRequestAttributes" -> AddRequestAttributes(st, ("k" :> StrBy("gold", b)))
    [] op = "setUserContext" -> SetUserContext(st, StrBy("user", b), StrBy("session", b))
    [] op = "updateTraceContext" ->
         UpdateTraceContext(st, [NoSpan EXCEPT !.traceId = StrBy("trace", b),
                                               !.spanId = StrBy("span", b)])

\* What a read returns to branch b.
Read(b, op) ==
  IF op = "getRequestContext"
  THEN ApiCall(op, FALSE, GetRequestContext(b))
  ELSE LET r == RequireRequestContext(StoreOf(b)) IN ApiCall(op, r.raised, r.value)

\* Code of unit p calls getRequestContext or requireRequestContext: before
\* the wrapper is called, inside the handler at any depth, or after the
\* wrapper has returned.
ContextRead(p, op) ==
  /\ pc[p] \in {"idle", "handler", "done"}
  /\ api' = [api EXCEPT ![p] = Read(p, op)]
  /\ UNCHANGED <<pc, store, serial, steps, span, handled, result, terminal, phases, released,
                 console, otelLog, bgLogs>>
  /\ UNCHANGED <<envVars, axiomVars, callerVars, handed, resolved, detached, lastWrite, lastCall>>

\* Code that runs in no scope calls an operation of the context module.
OutsideCall(op) ==
  /\ IF op \in ReadOps
     THEN /\ api' = [api EXCEPT ![Bg] = Read(Bg, op)]
          /\ UNCHANGED store
     ELSE /\ api' = [api EXCEPT ![Bg] = ApiCall(op, FALSE, NoContext)]
          /\ store' = [store EXCEPT ![Bg] = Mutated(StoreOf(Bg), Bg, op)]
  /\ UNCHANGED <<pc, serial, steps, span, handled, result, terminal, phases, released,
                 console, otelLog, bgLogs>>
  /\ UNCHANGED <<envVars, axiomVars, callerVars, handed, resolved, detached, lastWrite, lastCall>>

\* emitLog, or a method of the facade, called by code that runs in no scope.
LogOutsideScope(level, data) ==
  /\ bgLogs < MaxBgLogs
  /\ \E eff \in {EmitLog(StoreOf(Bg), level, "background", data,
                          Effects(console[Bg], otelLog[Bg], <<>>))} :
        /\ console' = [console EXCEPT ![Bg] = eff.con]
        /\ otelLog' = [otelLog EXCEPT ![Bg] = eff.otl]
        /\ lastCall' = [lastCall EXCEPT ![Bg] = Call(level, "background", data, eff)]
  /\ bgLogs' = bgLogs + 1
  /\ UNCHANGED <<pc, store, serial, steps, span, handled, result, terminal, phases, released>>
  /\ UNCHANGED <<envVars, axiomVars, callerVars, handed, resolved, api, detached, lastWrite>>

\* Code of branch b that runs in no scope calls withRequestContext(options,
\* fn) itself: with the options value callers reuse, or with options that
\* name no initialAttributes. createRequestContext takes the object it is
\* given as the attributes of the context (part_004 168), it does not copy it.
WithRequestContext(b, reused) ==
  /\ pc[b] = "idle"
  /\ ~HasContext(StoreOf(b))
  /\ serial[b] < MaxDepth
  /\ store' = [store EXCEPT ![b] =
                 EnterScope(@, CreateRequestContext(b, serial[b] + 1, StrBy("GET", b),
                                                    StrBy("/job", b),
                                                    IF reused THEN options ELSE <<>>,
                                                    NoSpan))]
  /\ serial' = [serial EXCEPT ![b] = @ + 1]
  /\ holders' = IF reused THEN holders \cup {b} ELSE holders
  /\ UNCHANGED <<pc, steps, span, handled, result, terminal, phases, released, handed,
                 options, console, otelLog, bgLogs>>
  /\ UNCHANGED <<envVars, axiomVars, resolved, api, detached, lastCall, lastWrite>>

\* An object has one state: a write through one reference to it is a write
\* to the contexts of all the branches that hold it and to the caller's value.
WriteThrough(b, st, key, value) ==
  [x \in Branches |->
     IF x = b \/ (b \in holders /\ x \in holders)
     THEN AddRequestAttribute(st[x], key, value) ELSE st[x]]

\* fn calls addRequestAttribute(key, value).
ScopedWrite(b, key, value) ==
  /\ pc[b] = "idle"
  /\ HasContext(StoreOf(b))
  /\ steps[b] < MaxSteps
  /\ store' = WriteThrough(b, store, key, value)
  /\ options' = IF b \in holders THEN Spread(options, (key :> value)) ELSE options
  /\ steps' = [steps EXCEPT ![b] = @ + 1]
  /\ UNCHANGED <<pc, serial, span, handled, result, terminal, phases, released, handed,
                 holders, console, otelLog, bgLogs>>
  /\ UNCHANGED <<envVars, axiomVars, resolved, api, detached, lastCall, lastWrite>>

\* fn returns and the scope is left.
ScopeReturns(b) ==
  /\ pc[b] = "idle"
  /\ HasContext(StoreOf(b))
  /\ store' = [store EXCEPT ![b] = ExitScope(@)]
  /\ holders' = holders \ {b}
  /\ UNCHANGED <<pc, serial, steps, span, handled, result, terminal, phases, released,
                 handed, options, console, otelLog, bgLogs>>
  /\ UNCHANGED <<envVars, axiomVars, resolved, api, detached, lastCall, lastWrite>>

\* Time passes: between two jobs of the event loop, before the wrapper is
\* called, after it has returned.
Tick ==
  /\ clock < MaxClock
  /\ clock' = clock + 1
  /\ UNCHANGED <<nodeEnv, otlpEndpoint, grafanaCreds, tracingVars, axiomVars>>

FacadeLevels == {"info", "error"}
Sessions == {"user", "none", "throws"}

InitEnv ==
  /\ nodeEnv \in {"development", "production", "test"}
  /\ otlpEndpoint \in BOOLEAN
  /\ grafanaCreds \in BOOLEAN
  /\ clock = 0

InitTracing ==
  /\ pc = [p \in Units |-> "idle"]
  /\ store = [b \in Branches |-> <<>>]
  /\ serial = [b \in Branches |-> 0]
  /\ steps = [p \in Units |-> 0]
  /\ span = [p \in Units |-> NoSpan]
  /\ handled = [p \in Units |-> NotSettled]
  /\ result = [p \in Units |-> NotSettled]
  /\ terminal = [p \in Units |-> <<>>]
  /\ phases = [p \in Units |-> <<>>]
  /\ released = [p \in Units |-> NoContext]
  /\ handed = [p \in Units |-> NoContext]
  /\ options = ("tenant" :> Str("acme"))
  /\ holders = {}
  /\ detached = [p \in Units |-> "none"]
  /\ lastWrite = [p \in Units |-> <<>>]
  /\ lastCall = [b \in Branches |-> NoCall]
  /\ api = [b \in Branches |-> NoApiCall]
  /\ resolved = [p \in Units |-> ""]
  /\ console = [b \in Branches |-> <<>>]
  /\ otelLog = [b \in Branches |-> <<>>]
  /\ bgLogs = 0

InitAxiom ==
  /\ axContext = <<>>
  /\ axIngest = <<>>
  /\ axConsole = <<>>
  /\ axOps = 0
  /\ axRaised = FALSE
  /\ mwResult = "none"
  /\ axiom = FALSE

\* One invocation, every environment configuration and every handler input.
Init == InitEnv /\ InitTracing /\ InitAxiom

Unit == "A"

Next ==
  \/ \E extractUser \in BOOLEAN : Invoke(Unit, extractUser)
  \/ \E session \in Sessions : ResolveIdentity(Unit, session)
  \/ \E key \in UserKeys : \E value \in UserValues(Unit) : CtxAddAttribute(Unit, key, value)
  \/ \E level \in FacadeLevels : LogFacade(Unit, level, <<>>)
  \/ NestedEnter(Unit)
  \/ NestedExit(Unit)
  \/ \E statusCode \in Statuses : HandlerReturns(Unit, statusCode)
  \/ \E e \in Thrown(Unit) : HandlerThrows(Unit, e)
  \/ LogOutsideScope("info", <<>>)

Spec == Init /\ [][Next]_vars

\* Two invocations that interleave at their suspension points, in development
\* with the exporter installed, so that every event goes to both sinks.
InitConc ==
  /\ nodeEnv = "development" /\ otlpEndpoint = TRUE /\ grafanaCreds = TRUE
  /\ clock = 0
  /\ InitTracing /\ InitAxiom

NextConc ==
  \/ \E p \in Units, extractUser \in BOOLEAN : Invoke(p, extractUser)
  \/ \E p \in Units, session \in {"user", "none"} : ResolveIdentity(p, session)
  \/ \E p \in Units : CtxAddAttribute(p, "k", StrBy("gold", p))
  \/ \E p \in Units : LogFacade(p, "info", <<>>)
  \/ \E p \in Units : NestedEnter(p)
  \/ \E p \in Units : NestedExit(p)
  \/ \E p \in Units : HandlerReturns(p, 200)
  \/ \E p \in Units : HandlerThrows(p, JsError("Error", "boom", p))

SpecConc == InitConc /\ [][NextConc]_vars

\* One invocation whose handler writes attributes through every write
\* operation, in any mix.
NextWrites ==
  \/ \E extractUser \in BOOLEAN : Invoke(Unit, extractUser)
  \/ \E session \in {"user", "none"} : ResolveIdentity(Unit, session)
  \/ \E key \in WriteKeys, value \in WriteValues(Unit) : AddAttribute(Unit, key, value)
  \/ \E attrs \in WriteBatches(Unit) : AddAttributes(Unit, attrs)
  \/ \E key \in WriteKeys, value \in WriteValues(Unit) : CtxAddAttribute(Unit, key, value)
  \/ \E attrs \in WriteBatches(Unit) : CtxAddAttributes(Unit, attrs)
  \/ \E statusCode \in Statuses : HandlerReturns(Unit, statusCode)
  \/ \E e \in Thrown(Unit) : HandlerThrows(Unit, e)

SpecWrites == Init /\ [][NextWrites]_vars

\* One invocation whose handler writes attributes and calls the facade with
\* extra fields, some of them named like attributes or like fields of the event.
MergeKeys == {"k", "request_id"}

NextLogger ==
  \/ \E extractUser \in BOOLEAN : Invoke(Unit, extractUser)
  \/ \E session \in {"user", "none"} : ResolveIdentity(Unit, session)
  \/ \E key \in MergeKeys : AddAttribute(Unit, key, StrBy("gold", Unit))
  \/ \E level \in FacadeLevels, data \in ExtraData(Unit) : LogFacade(Unit, level, data)
  \/ \E statusCode \in Statuses : HandlerReturns(Unit, statusCode)

SpecLogger == Init /\ [][NextLogger]_vars

\* Code that runs in no scope and logs.
NextNoContext ==
  \E level \in LogLevels, data \in ExtraData(Bg) : LogOutsideScope(level, data)

SpecNoContext == Init /\ [][NextNoContext]_vars

\* One invocation with nested scopes, its code reading the context before,
\* inside and after the scopes, and code in no scope calling every operation
\* of the context module.
InitContext ==
  /\ nodeEnv = "test" /\ otlpEndpoint = FALSE /\ grafanaCreds = FALSE
  /\ clock = 0
  /\ InitTracing /\ InitAxiom

NextContext ==
  \/ \E extractUser \in BOOLEAN : Invoke(Unit, extractUser)
  \/ \E session \in {"user", "none"} : ResolveIdentity(Unit, session)
  \/ AddAttribute(Unit, "k", StrBy("gold", Unit))
  \/ NestedEnter(Unit)
  \/ NestedExit(Unit)
  \/ \E op \in ReadOps : ContextRead(Unit, op)
  \/ \E op \in ReadOps \cup MutatorOps : OutsideCall(op)
  \/ HandlerReturns(Unit, 200)
  \/ HandlerThrows(Unit, JsError("Error", "boom", Unit))

SpecContext == InitContext /\ [][NextContext]_vars

\* One invocation whose handler, after the wrapper's identity lookup, calls
\* setUserContext itself, in the wrapper's scope or in a nested one.
NextIdentity ==
  \/ \E extractUser \in BOOLEAN : Invoke(Unit, extractUser)
  \/ \E session \in {"user", "none"} : ResolveIdentity(Unit, session)
  \/ \E userId \in UserIds(Unit), sessionId \in SessionIds(Unit) :
       SetUser(Unit, userId, sessionId)
  \/ NestedEnter(Unit)
  \/ NestedExit(Unit)
  \/ HandlerReturns(Unit, 200)
  \/ HandlerThrows(Unit, JsError("Error", "boom", Unit))

SpecIdentity == InitContext /\ [][NextIdentity]_vars

\* Two interleaved invocations whose handlers start spans of their own and
\* write attributes named like the correlation fields of the event.
TraceKeys == {"k", "trace_id", "span_id"}

NextTrace ==
  \/ \E p \in Units : Invoke(p, FALSE)
  \/ \E p \in Units : UpdateTrace(p)
  \/ \E p \in Units, key \in TraceKeys : CtxAddAttribute(p, key, StrBy("gold", p))
  \/ \E p \in Units : HandlerReturns(p, 200)
  \/ \E p \in Units : HandlerThrows(p, JsError("Error", "boom", p))

SpecTrace == InitConc /\ [][NextTrace]_vars

\* One invocation under a clock that ticks: its handler logs in the wrapper's
\* scope and in nested scopes, code in no scope logs too, and an attribute or
\* an extra field may be named like the duration field of the event.
ClockData(b) == {<<>>, ("duration_ms" :> StrBy("extra", b))}

NextClock ==
  \/ Tick
  \/ Invoke(Unit, FALSE)
  \/ NestedEnter(Unit)
  \/ NestedExit(Unit)
  \/ CtxAddAttribute(Unit, "duration_ms", StrBy("gold", Unit))
  \/ \E data \in ClockData(Unit) : LogFacade(Unit, "info", data)
  \/ LogOutsideScope("info", <<>>)
  \/ HandlerReturns(Unit, 200)

SpecClock == InitConc /\ [][NextClock]_vars

\* Two callers of withRequestContext whose scopes overlap or follow each
\* other, with a reused options value or with options of their own.
NextCallers ==
  \/ \E b \in Units, reused \in BOOLEAN : WithRequestContext(b, reused)
  \/ \E b \in Units : \E value \in WriteValues(b) : ScopedWrite(b, "k", value)
  \/ \E b \in Units : ScopeReturns(b)

SpecCallers == InitContext /\ [][NextCallers]_vars

\* One invocation whose handler may leave a continuation behind.
NextDetached ==
  \/ \E extractUser \in BOOLEAN : Invoke(Unit, extractUser)
  \/ \E session \in {"user", "none"} : ResolveIdentity(Unit, session)
  \/ \E value \in UserValues(Unit) : CtxAddAttribute(Unit, "k", value)
  \/ Spawn(Unit)
  \/ \E op \in DetachedOps : DetachedRun(Unit, op)
  \/ \E statusCode \in Statuses : HandlerReturns(Unit, statusCode)
  \/ \E e \in Thrown(Unit) : HandlerThrows(Unit, e)

SpecDetached == Init /\ [][NextDetached]_vars

\* One invocation in which the settling of the handler and the continuation
\* of the wrapper are two jobs; the event loop runs every job it has queued.
NextLive ==
  \/ \E extractUser \in BOOLEAN : Invoke(Unit, extractUser)
  \/ \E session \in Sessions : ResolveIdentity(Unit, session)
  \/ \E key \in UserKeys : \E value \in UserValues(Unit) : CtxAddAttribute(Unit, key, value)
  \/ \E level \in FacadeLevels : LogFacade(Unit, level, <<>>)
  \/ NestedEnter(Unit)
  \/ NestedExit(Unit)
  \/ \E statusCode \in Statuses : HandlerSettles(Unit, Returned(statusCode))
  \/ \E e \in Thrown(Unit) : HandlerSettles(Unit, Threw(e))
  \/ Resume(Unit)

\* Resume(p) is enabled exactly when pc[p] = "settled" and is the only step
\* that leaves it, so fairness of that change of pc is fairness of Resume(p).
Resumed(p) == pc[p] = "settled" /\ pc' = [pc EXCEPT ![p] = "done"]

SpecLive == Init /\ [][NextLive]_vars /\ WF_pc(Resumed(Unit))

\* ------------------------------------------------------------ Axiom Logger
\* new Logger(initialContext): the context and the time of construction.
LoggerNew(initialContext, now) == Spread(initialContext, [timestamp |-> Num(now)])

LoggerAddContext(context, more) == Spread(context, more)

LoggerEvent(context, level, message, additionalContext, now) ==
  Spread(Spread([level |-> Str(level), message |-> Str(message), timestamp |-> Num(now)],
                context),
         additionalContext)

\* Logger.emit: what it writes to the console and what it hands to
\* axiom.ingest, whose outcome is ingestOk.
LoggerEmitNoFallback(context, level, message, additionalContext, now, ingestOk) ==
  LET event == LoggerEvent(context, level, message, additionalContext, now) IN
  IF ~axiom
  THEN [con |-> <<[method |-> "log", event |-> event]>>, ing |-> <<>>]
  ELSE IF ingestOk
       THEN [con |-> <<>>, ing |-> <<[event |-> event, ok |-> TRUE]>>]
       ELSE [con |-> <<[method |-> "error", event |-> <<>>]>>,
             ing |-> <<[event |-> event, ok |-> FALSE]>>]

LoggerEmit(context, level, message, additionalContext, now, ingestOk) ==
  LET event == LoggerEvent(context, level, message, additionalContext, now) IN
  IF ~axiom
  THEN [con |-> <<[method |-> "log", event |-> event]>>, ing |-> <<>>]
  ELSE IF ingestOk
       THEN [con |-> <<>>, ing |-> <<[event |-> event, ok |-> TRUE]>>]
       ELSE [con |-> <<[method |-> "error", event |-> <<>>],
                       [method |-> "log", event |-> event]>>,
             ing |-> <<[event |-> event, ok |-> FALSE]>>]

\* What error() and fatal() add to the context they were given.
ErrorContext(context, hasError) ==
  Spread(context, [error |-> IF hasError THEN Val("object", "boom", 0, "sys") ELSE Undefined])

CallContexts == {<<>>, [statusCode |-> Num(200)]}
AddedContexts == {[userId |-> Str("user")], [level |-> Str("debug")]}

\* logger.debug / info / warn / error / fatal
LoggerLog(level, context, hasError, ingestOk) ==
  /\ axOps < MaxAxiomOps
  /\ level \in {"debug", "info", "warn"} => ~hasError
  /\ LET extra == IF level \in {"error", "fatal"} THEN ErrorContext(context, hasError)
                  ELSE context
         out == LoggerEmit(axContext, level, "msg", extra, axOps + 1, ingestOk)
     IN /\ axConsole' = axConsole \o out.con
        /\ axIngest' = axIngest \o out.ing
  /\ axOps' = axOps + 1
  /\ UNCHANGED <<axiom, axContext, axRaised, mwResult>>
  /\ UNCHANGED <<envVars, tracingVars>>

AddContext(context) ==
  /\ axOps < MaxAxiomOps
  /\ axContext' = LoggerAddContext(axContext, context)
  /\ axOps' = axOps + 1
  /\ UNCHANGED <<axiom, axIngest, axConsole, axRaised, mwResult>>
  /\ UNCHANGED <<envVars, tracingVars>>

\* Logger.flush awaits axiom.flush() when the client exists, with no
\* try/catch: it rejects when axiom.flush() rejects.
LoggerFlushRejects(flushOk) == axiom /\ ~flushOk

\* logger.flush()
Flush(flushOk) ==
  /\ axOps < MaxAxiomOps
  /\ axRaised' = (axRaised \/ LoggerFlushRejects(flushOk))
  /\ axOps' = axOps + 1
  /\ UNCHANGED <<axiom, axContext, axIngest, axConsole, mwResult>>
  /\ UNCHANGED <<envVars, tracingVars>>

\* axiomMiddleware(request): a Logger of its own, NextResponse.next(),
\* `await logger.info(...)`, `await logger.flush()`, `return response`.
AxiomMiddleware(ingestOk, flushOk) ==
  /\ axOps < MaxAxiomOps
  /\ LET context == LoggerNew([requestId |-> Str("req"), method |-> Str("GET"),
                               endpoint |-> Str("/api"), userAgent |-> Str("ua")],
                              axOps + 1)
         out == LoggerEmit(context, "info", "Request passed through middleware",
                           [statusCode |-> Num(200), duration |-> Num(0)],
                           axOps + 1, ingestOk)
     IN /\ axConsole' = axConsole \o out.con
        /\ axIngest' = axIngest \o out.ing
  /\ axRaised' = (axRaised \/ LoggerFlushRejects(flushOk))
  /\ mwResult' = IF LoggerFlushRejects(flushOk) THEN "rejected" ELSE "response"
  /\ axOps' = axOps + 1
  /\ UNCHANGED <<axiom, axContext>>
  /\ UNCHANGED <<envVars, tracingVars>>

InitAxiomLogger ==
  /\ nodeEnv = "production" /\ otlpEndpoint = FALSE /\ grafanaCreds = FALSE
  /\ clock = 0
  /\ InitTracing
  /\ axiom \in BOOLEAN
  /\ \E initialContext \in {<<>>, [requestId |-> Str("req")]} :
        axContext = LoggerNew(initialContext, 0)
  /\ axIngest = <<>>
  /\ axConsole = <<>>
  /\ axOps = 0
  /\ axRaised = FALSE
  /\ mwResult = "none"

NextAxiom ==
  \/ \E level \in LogLevels, context \in CallContexts, hasError \in BOOLEAN, ingestOk \in BOOLEAN :
        LoggerLog(level, context, hasError, ingestOk)
  \/ \E context \in AddedContexts : AddContext(context)
  \/ \E flushOk \in BOOLEAN : Flush(flushOk)

SpecAxiom == InitAxiomLogger /\ [][NextAxiom]_vars

\* Requests passing through axiomMiddleware, and direct calls of every Logger
\* method, with an exporter that accepts or rejects each ingest and each flush.
NextMiddleware ==
  \/ \E ingestOk \in BOOLEAN, flushOk \in BOOLEAN : AxiomMiddleware(ingestOk, flushOk)
  \/ \E level \in LogLevels, ingestOk \in BOOLEAN : LoggerLog(level, <<>>, FALSE, ingestOk)
  \/ \E flushOk \in BOOLEAN : Flush(flushOk)

SpecMiddleware == InitAxiomLogger /\ [][NextMiddleware]_vars

\* ------------------------------------------------------------------ claims
Events(b) == {console[b][i].event : i \in DOMAIN console[b]}
OTelRecords(b) == {otelLog[b][i] : i \in DOMAIN otelLog[b]}
TerminalEvents(p) == {terminal[p][i] : i \in DOMAIN terminal[p]}

\* Every value of the event was produced by branch p or by the library.
OwnEvent(p, event) == \A k \in DOMAIN event : event[k].by \in {p, "sys"}

\* C1: when an invocation has settled, exactly one terminal canonical event
\* has been emitted through emitRequestLog and span.end() was called exactly
\* once.
C1_ExactlyOneEventAndSpanEnd ==
  \A p \in Units : pc[p] = "done" => Len(terminal[p]) = 1 /\ span[p].ended = 1

\* C2: under every interleaving of two units, getRequestContext gives each
\* unit a context that the unit itself established, and no event a unit emits
\* (console, OTLP, terminal) holds a request id or an attribute of the other.
C2_NoCrossContamination ==
  \A p \in Units :
    /\ \A i \in DOMAIN store[p] :
         store[p][i].requestId.by = p /\ OwnEvent(p, store[p][i].attributes)
    /\ pc[p] \in {"identity", "handler"} =>
         HasContext(StoreOf(p)) /\ GetRequestContext(p).requestId.by = p
    /\ \A ev \in Events(p) \cup TerminalEvents(p) : OwnEvent(p, ev)
    /\ \A r \in OTelRecords(p) : OwnEvent(p, r.attributes) /\ r.body.by \in {p, "sys"}

C2_Witness ==
  /\ pc["A"] = "handler" /\ Events("A") # {}
  /\ "k" \in DOMAIN GetRequestContext("A").attributes
  /\ pc["B"] = "done" /\ Len(terminal["B"]) = 1
  /\ "k" \in DOMAIN terminal["B"][1]

\* C3: scopes nest LIFO.  Entering a nested scope makes a new context current
\* on top of the unchanged enclosing ones; when the inner callback returns the
\* enclosing context is current again, at every depth; when an exception
\* leaves the nested scopes the wrapper's catch block runs in the wrapper's
\* own context.
C3_NestedScopesLIFO ==
  [][\A p \in Units :
       LET n == Len(store[p]) IN
       /\ (n >= 1 /\ Len(store'[p]) > n) =>
            /\ Len(store'[p]) = n + 1
            /\ SubSeq(store'[p], 1, n) = store[p]
            /\ \A i \in 1..n : store[p][i].requestId # GetRequestContext(p)'.requestId
       /\ (Len(store'[p]) < n /\ pc'[p] = "handler") =>
            /\ n >= 2
            /\ Len(store'[p]) = n - 1
            /\ GetRequestContext(p)' = store[p][n - 1]
       /\ (pc[p] = "handler" /\ pc'[p] = "done") =>
            \A i \in DOMAIN terminal'[p] :
               Field(terminal'[p][i], "request_id") = store[p][1].requestId
    ]_vars

C3_Witness ==
  /\ pc["A"] = "handler" /\ serial["A"] = 3 /\ Len(store["A"]) = 2
  /\ GetRequestContext("A").requestId = GenerateRequestId("A", 2)

\* C4: when the handler throws e, the terminal event has level error,
\* status_code 500 and the message of e, and the wrapper rejects with e itself.
C4_HandlerErrorPropagates ==
  \A p \in Units :
    (pc[p] = "done" /\ handled[p].kind = "threw") =>
      /\ result[p] = Rejected(handled[p].err)
      /\ terminal[p] # <<>>
      /\ LET ev == terminal[p][Len(terminal[p])] IN
           /\ Field(ev, "level") = Str("error")
           /\ Field(ev, "status_code") = Num(500)
           /\ Field(ev, "error.message").s = handled[p].err.message

\* C5: a failure inside the logger never surfaces: the wrapper resolves with
\* the handler's response, or rejects with the value the handler threw.
C5_LoggerFailureContained ==
  \A p \in Units :
    pc[p] = "done" =>
      /\ handled[p].kind = "returned" => result[p] = Resolved(handled[p].status)
      /\ handled[p].kind = "threw" => result[p] = Rejected(handled[p].err)

\* C6: the terminal event of a request that completed with status s has
\* status_code s and level error (s >= 500), warn (400 <= s < 500) or info.
C6_StatusTiering ==
  \A p \in Units :
    (pc[p] = "done" /\ handled[p].kind = "returned") =>
      /\ terminal[p] # <<>>
      /\ LET ev == terminal[p][1]
             s == handled[p].status
         IN /\ Field(ev, "status_code") = Num(s)
            /\ Field(ev, "level") =
                 Str(IF s >= 500 THEN "error" ELSE IF s >= 400 THEN "warn" ELSE "info")

C8_EveryEventRecorded ==
  /\ Len(console[Bg]) + Len(otelLog[Bg]) >= bgLogs
  /\ \A p \in Units :
       pc[p] = "done" => Len(console[p]) + Len(otelLog[p]) >= Len(terminal[p])

\* C9: whenever the exporter is installed every emitLog call writes to it,
\* with or without a context, and in development also to the console.
C9_RemoteWheneverConfigured ==
  LogExporterInstalled =>
    /\ Len(otelLog[Bg]) >= bgLogs
    /\ \A p \in Units : pc[p] = "done" => Len(otelLog[p]) >= Len(terminal[p])
    /\ nodeEnv = "development" =>
         /\ Len(console[Bg]) >= bgLogs
         /\ \A p \in Units : pc[p] = "done" => Len(console[p]) >= Len(terminal[p])

Predecessors(phase) ==
  CASE phase = "SpanOpen" -> {}
    [] phase = "ContextOpen" -> {"SpanOpen"}
    [] phase = "IdentityResolution" -> {"ContextOpen"}
    [] phase = "HandlerRunning" -> {"ContextOpen", "IdentityResolution"}
    [] phase = "EventEmitted" -> {"HandlerRunning", "EventEmitted"}
    [] phase = "SpanClosed" -> {"EventEmitted"}

InOrder(ph) ==
  \A i \in DOMAIN ph :
     IF i = 1 THEN ph[i] = "SpanOpen" ELSE ph[i - 1] \in Predecessors(ph[i])

C12_ContextFrozenAfterEmission ==
  [][\A p \in Units :
       terminal[p] # <<>> => WrapperContext(p)' = WrapperContext(p)]_vars

\* The event emitRequestLog built last for p.
TerminalEvent(p) == terminal[p][Len(terminal[p])]

\* The fields emitRequestLog passes to emitLog as additional data.
TerminalExtraFields == {"status_code"}

\* C13 as claimed: whatever the keys, the terminal event of a settled
\* invocation carries for each key written in its scope the value of the last
\* write to that key.
C13_LastWriteWins ==
  \A p \in Units :
    pc[p] = "done" =>
      \A k \in DOMAIN lastWrite[p] : Field(TerminalEvent(p), k) = lastWrite[p][k]

\* C13 as amended: the terminal event carries the value of the last write for
\* every key written in its scope that is not an extra field of the emitting
\* call; status_code, the extra field of emitRequestLog, carries the status
\* the call was given whatever was written under that key.
C13_LastWriteWinsUnlessExtraField ==
  \A p \in Units :
    pc[p] = "done" =>
      /\ \A k \in (DOMAIN lastWrite[p]) \ TerminalExtraFields :
            /\ k \in DOMAIN TerminalEvent(p)
            /\ TerminalEvent(p)[k] = lastWrite[p][k]
      /\ TerminalEvent(p)["status_code"].by = "sys"

C13_Witness ==
  /\ pc["A"] = "done" /\ steps["A"] = 2
  /\ Field(span["A"].attrs, "k") = StrBy("gold", "A")
  /\ lastWrite["A"] = ("k" :> Val("num", "", 7, "A"))
  /\ TerminalEvent("A")["k"] = Val("num", "", 7, "A")

\* The first layer of an event: timing, ids, identity, method, endpoint,
\* level and message.
ContextBase(ctx, level, message) ==
  [timestamp |-> Timestamp, duration_ms |-> GetRequestDuration(ctx),
   request_id |-> ctx.requestId, trace_id |-> ctx.traceId, span_id |-> ctx.spanId,
   user_id |-> ctx.userId, session_id |-> ctx.sessionId,
   method |-> ctx.method, endpoint |-> ctx.endpoint,
   level |-> Str(level), message |-> Str(message)]

\* Key by key: the extra field if there is one, else the attribute if there
\* is one, else the base field.
Layered(event, base, attrs, extra) ==
  /\ DOMAIN event = (DOMAIN base) \cup (DOMAIN attrs) \cup (DOMAIN extra)
  /\ \A k \in DOMAIN event :
        event[k] = IF k \in DOMAIN extra THEN extra[k]
                   ELSE IF k \in DOMAIN attrs THEN attrs[k] ELSE base[k]

\* C14: the event an emitLog call builds in a context has exactly the keys of
\* the base fields, of the context's attributes and of the extra fields, and
\* on every key the extra field wins over the attribute, which wins over the
\* base field.
C14_MergeOrder ==
  [][\A p \in Units :
       lastCall'[p] # lastCall[p] =>
         Layered(lastCall'[p].event,
                 ContextBase(GetRequestContext(p), lastCall'[p].level, lastCall'[p].message),
                 GetRequestContext(p).attributes,
                 lastCall'[p].data)]_vars

C14_Witness ==
  /\ pc["A"] = "handler"
  /\ Field(GetRequestContext("A").attributes, "request_id") = StrBy("gold", "A")
  /\ lastCall["A"].data = ("request_id" :> StrBy("extra", "A"))
  /\ lastCall["A"].event["request_id"] = StrBy("extra", "A")
  /\ console["A"] # <<>>
  /\ console["A"][Len(console["A"])].event = lastCall["A"].event

\* Branch b is in no scope: the branch of no request, or a unit before its
\* wrapper has opened its scope or after the wrapper has left it.
OutsideEveryScope(b) == b = Bg \/ pc[b] \in {"idle", "done"}

\* The step is a call of op by code of branch b.
Calls(b, ops) == api'[b] # api[b] /\ api'[b].op \in ops

\* C15: addRequestAttribute, addRequestAttributes, setUserContext and
\* updateTraceContext called in no scope do not raise, create no context and
\* change no context of any branch; a scope opened afterwards starts with the
\* attributes and identity its creator gave it.
C15_MutatorsOutsideScopeChangeNothing ==
  [][/\ Calls(Bg, MutatorOps) =>
          /\ ~api'[Bg].raised
          /\ store' = store
          /\ released' = released
     /\ ~HasContext(store'[Bg])
     /\ \A p \in Units :
          (pc[p] = "idle" /\ pc'[p] # "idle") =>
             /\ DOMAIN GetRequestContext(p)'.attributes = {"http.url", "http.user_agent"}
             /\ GetRequestContext(p)'.userId = Undefined
             /\ GetRequestContext(p)'.sessionId = Undefined
             /\ GetRequestContext(p)'.traceId.by = p
    ]_vars

C15_Witness ==
  /\ api[Bg].op = "setUserContext" /\ ~api[Bg].raised
  /\ ~HasContext(store[Bg])
  /\ pc["A"] = "handler" /\ steps["A"] = 0
  /\ GetRequestContext("A").userId = Undefined

\* C16: getRequestContext does not raise; it returns no context to code in no
\* scope and a context of its own unit to code in a scope; and whenever a
\* scope is left, by return or by exception, the context current afterwards is
\* the one that was current when that scope was entered, none for the
\* outermost scope.
C16_ContextNeverLeaks ==
  [][/\ \A b \in Branches :
          Calls(b, {"getRequestContext"}) =>
             /\ ~api'[b].raised
             /\ OutsideEveryScope(b) => api'[b].value = NoContext
             /\ ~OutsideEveryScope(b) =>
                   /\ api'[b].value # NoContext
                   /\ api'[b].value.requestId.by = b
     /\ \A p \in Units :
          Len(store'[p]) < Len(store[p]) =>
             GetRequestContext(p)' =
               IF HasContext(store'[p]) THEN store[p][Len(store'[p])] ELSE NoContext
    ]_vars

C16_Witness ==
  /\ pc["A"] = "done" /\ handled["A"].kind = "threw" /\ serial["A"] >= 2
  /\ api["A"].op = "getRequestContext" /\ api["A"].value = NoContext

\* C17: requireRequestContext raises exactly when the calling branch is in no
\* scope, returns what getRequestContext returns otherwise, and changes no
\* store either way.
C17_RequireRaisesIffNoContext ==
  [][\A b \in Branches :
       Calls(b, {"requireRequestContext"}) =>
          /\ api'[b].raised <=> OutsideEveryScope(b)
          /\ ~api'[b].raised => api'[b].value = GetRequestContext(b)
          /\ store' = store
    ]_vars

C17_Witness ==
  /\ api[Bg].op = "requireRequestContext" /\ api[Bg].raised
  /\ pc["A"] = "handler" /\ Len(store["A"]) = 2
  /\ api["A"].op = "requireRequestContext" /\ ~api["A"].raised
  /\ api["A"].value = GetRequestContext("A")

\* C18: every emitLog call made with no context returns without raising and
\* has written exactly one event, whose request_id, trace_id, span_id, method,
\* endpoint and duration_ms are the sentinels and which carries the level,
\* the message and the extra fields of the call.
C18_DegradedEventWithoutContext ==
  bgLogs > 0 =>
    /\ ~lastCall[Bg].raised
    /\ Len(console[Bg]) + Len(otelLog[Bg]) = bgLogs
    /\ Len(console[Bg]) = bgLogs
    /\ LET ev == console[Bg][Len(console[Bg])].event IN
         /\ Field(ev, "request_id") = Str("no-context")
         /\ Field(ev, "trace_id") = Str("no-trace")
         /\ Field(ev, "span_id") = Str("no-span")
         /\ Field(ev, "method") = Str("N/A")
         /\ Field(ev, "endpoint") = Str("N/A")
         /\ Field(ev, "duration_ms") = Num(0)
         /\ Field(ev, "level") = Str(lastCall[Bg].level)
         /\ Field(ev, "message") = Str(lastCall[Bg].message)
         /\ \A k \in DOMAIN lastCall[Bg].data : Field(ev, k) = lastCall[Bg].data[k]

\* The identity lookup of p failed: getSession threw or gave no user.
IdentityFailed(p) == resolved[p] \in {"none", "throws"}

\* C19: when the identity lookup fails, the handler is still invoked, once;
\* the context has no userId and no sessionId while it runs and when the
\* terminal event is built; and the wrapper settles as the handler did.
C19_IdentityFailureDoesNotAbort ==
  \A p \in Units :
    IdentityFailed(p) =>
      /\ pc[p] \in {"handler", "settled", "done"}
      /\ Cardinality({i \in DOMAIN phases[p] : phases[p][i] = "HandlerRunning"}) = 1
      /\ pc[p] = "handler" =>
            /\ GetRequestContext(p).userId = Undefined
            /\ GetRequestContext(p).sessionId = Undefined
      /\ pc[p] = "done" =>
            /\ released[p].userId = Undefined /\ released[p].sessionId = Undefined
            /\ handled[p].kind = "returned" => result[p] = Resolved(handled[p].status)
            /\ handled[p].kind = "threw" => result[p] = Rejected(handled[p].err)

\* C20: whatever the exporter does, ingest or flush rejecting, no method of
\* the Axiom Logger rejects and axiomMiddleware returns its response.
C20_ExporterFailureNeverRaises ==
  /\ ~axRaised
  /\ mwResult \in {"none", "response"}

\* C21: a context is created without userId and sessionId, and once one of
\* the two fields of a context has a value no later step changes that value.
C21_IdentitySetAtMostOnce ==
  [][\A p \in Units : \A i \in 1..Len(store'[p]) :
       IF i > Len(store[p])
       THEN store'[p][i].userId = Undefined /\ store'[p][i].sessionId = Undefined
       ELSE store'[p][i].requestId = store[p][i].requestId =>
              /\ Truthy(store[p][i].userId) => store'[p][i].userId = store[p][i].userId
              /\ Truthy(store[p][i].sessionId) =>
                   store'[p][i].sessionId = store[p][i].sessionId]_vars

\* C22: every terminal event of an invocation carries the trace id and the
\* span id of the span that invocation opened.
C22_TerminalEventCarriesOwnSpan ==
  \A p \in Units : \A i \in 1..Len(terminal[p]) :
    /\ Field(terminal[p][i], "trace_id") = span[p].traceId
    /\ Field(terminal[p][i], "span_id") = span[p].spanId

\* C22 (amended): every terminal event carries correlation ids of its own
\* invocation: those of the span the invocation opened or, once the handler
\* has passed a span of its own to updateTraceContext, those of that span;
\* an attribute named trace_id or span_id replaces the field by the merge
\* order. Never a sentinel, never a value of the other invocation.
SpanInContext(p) == IF api[p].op = "updateTraceContext" THEN ChildSpan(p) ELSE span[p]

C22_TerminalEventCarriesContextSpan ==
  \A p \in Units : \A i \in 1..Len(terminal[p]) :
    /\ Field(terminal[p][i], "trace_id") =
         IF "trace_id" \in DOMAIN lastWrite[p] THEN lastWrite[p]["trace_id"]
         ELSE SpanInContext(p).traceId
    /\ Field(terminal[p][i], "span_id") =
         IF "span_id" \in DOMAIN lastWrite[p] THEN lastWrite[p]["span_id"]
         ELSE SpanInContext(p).spanId
    /\ Field(terminal[p][i], "trace_id").by = p
    /\ Field(terminal[p][i], "span_id").by = p

\* Both invocations were open at the same time and both have emitted; one
\* handler had passed a span of its own, the other had written no
\* correlation attribute.
C22_Witness ==
  /\ \A p \in Units : terminal[p] # <<>>
  /\ \E p \in Units : api[p].op = "updateTraceContext"
  /\ \E p \in Units : api[p].op = "" /\ lastWrite[p] = <<>>
  /\ \A p \in Units : Field(terminal[p][1], "request_id").by = p

\* The duration an event built with the store st must report, read off the
\* clock and the creation time of the current context.
Elapsed(st) == IF HasContext(st) THEN Num(clock - Current(st).startTime) ELSE Num(0)

\* The steps in which branch b builds an event: a call of the facade or of
\* emitLog by its own code, or emitRequestLog at the end of its invocation.
Builds(b) == lastCall'[b] # lastCall[b]
Emits(p) == Len(terminal'[p]) > Len(terminal[p])

\* A context takes the clock value of its creation as startTime, keeps it,
\* and the clock never goes backwards.
StartTimesKept ==
  /\ clock' >= clock
  /\ \A b \in Branches :
       /\ Len(store'[b]) > Len(store[b]) => Current(store'[b]).startTime = clock
       /\ \A i \in 1..Len(store[b]) :
            i <= Len(store'[b]) => store'[b][i].startTime = store[b][i].startTime

\* C23: an event built inside a scope reports the clock at emission minus the
\* clock at which the current context was created, never a negative number,
\* and an event built in no scope reports 0.
C23_DurationIsElapsedTime ==
  [][/\ StartTimesKept
     /\ \A b \in Branches :
          Builds(b) => /\ Field(lastCall'[b].event, "duration_ms") = Elapsed(store[b])
                       /\ Elapsed(store[b]).n >= 0
     /\ \A p \in Units :
          Emits(p) => Field(terminal'[p][Len(terminal'[p])], "duration_ms")
                        = Elapsed(<<store[p][1]>>)]_vars

\* duration_ms of an event built from the store st with extra fields data,
\* by the merge order of the event.
Reported(st, data) ==
  IF "duration_ms" \in DOMAIN data THEN data["duration_ms"]
  ELSE IF "duration_ms" \in DOMAIN Current(st).attributes
       THEN Current(st).attributes["duration_ms"]
       ELSE Elapsed(st)

\* C23 (amended): the same, unless an attribute of the context or an extra
\* field of the call is named duration_ms, which the event then carries.
C23_DurationIsElapsedTimeUnlessOverridden ==
  [][/\ StartTimesKept
     /\ \A b \in Branches :
          Builds(b) => /\ Field(lastCall'[b].event, "duration_ms")
                            = Reported(store[b], lastCall'[b].data)
                       /\ Elapsed(store[b]).n >= 0
     /\ \A p \in Units :
          Emits(p) => Field(terminal'[p][Len(terminal'[p])], "duration_ms")
                        = Reported(<<store[p][1]>>, <<>>)]_vars

\* A context created at tick 1 whose terminal event, built at tick 3, reports
\* 2, after an event built in no scope at a later tick than 0 reported 0.
C23_Witness ==
  /\ terminal[Unit] # <<>>
  /\ released[Unit].startTime = 1
  /\ Field(terminal[Unit][1], "duration_ms") = Num(2)
  /\ lastCall[Bg].event # <<>>
  /\ Field(lastCall[Bg].event, "timestamp").n > 0
  /\ Field(lastCall[Bg].event, "duration_ms") = Num(0)

\* The attributes new are the attributes old after an additive merge that
\* names keys: every key of old is kept, with its value unless it is named.
MergedInto(old, new, keys) ==
  /\ DOMAIN new = (DOMAIN old) \cup keys
  /\ \A k \in (DOMAIN old) \ keys : new[k] = old[k]

Attributes(st) == Current(st).attributes

\* C24: while a context is in a store no step removes a key of its
\* attributes, and a call of addRequestAttribute, addRequestAttributes,
\* ctx.addAttribute or ctx.addAttributes changes the keys it names and no other.
C24_AttributesGrowAdditively ==
  [][/\ \A b \in Branches : \A i \in 1..Len(store[b]) :
          (i <= Len(store'[b]) /\ store'[b][i].requestId = store[b][i].requestId)
            => DOMAIN store[b][i].attributes \subseteq DOMAIN store'[b][i].attributes
     /\ \A key \in WriteKeys, value \in WriteValues(Unit) :
          (AddAttribute(Unit, key, value) \/ CtxAddAttribute(Unit, key, value))
            => MergedInto(Attributes(store[Unit]), Attributes(store'[Unit]), {key})
     /\ \A attrs \in WriteBatches(Unit) :
          (AddAttributes(Unit, attrs) \/ CtxAddAttributes(Unit, attrs))
            => MergedInto(Attributes(store[Unit]), Attributes(store'[Unit]), DOMAIN attrs)]_vars

\* After two writes the context holds the initial attributes, the identity
\* attributes and both written keys.
C24_Witness ==
  /\ pc[Unit] = "handler" /\ steps[Unit] = 2
  /\ DOMAIN Attributes(store[Unit]) =
       {"http.url", "http.user_agent", "user.email", "user.name", "k", "status_code"}
  /\ Attributes(store[Unit])["k"] = Val("num", "", 7, Unit)

\* The handler of p failed: it threw, or it returned a status of 500 or more.
HandlerFailed(p) ==
  \/ handled[p].kind = "threw"
  \/ handled[p].kind = "returned" /\ handled[p].status >= 500

\* C25: when the invocation is over the span's status is ERROR if the handler
\* threw or returned a status >= 500 and OK otherwise; recordException was
\* called once if the handler threw and never if it returned; and the span's
\* http.status_code is the status_code of the terminal event.
C25_SpanOutcomeMatchesHandler ==
  \A p \in Units :
    pc[p] = "done" =>
      /\ span[p].status = IF HandlerFailed(p) THEN "ERROR" ELSE "OK"
      /\ span[p].exceptions = IF handled[p].kind = "threw" THEN 1 ELSE 0
      /\ terminal[p] # <<>>
      /\ Field(span[p].attrs, "http.status_code") = Field(TerminalEvent(p), "status_code")

\* C26: while the handler runs, the request record it was handed has the
\* requestId, the startTime and the attributes of the ambient context of the
\* invocation, and the terminal event carries the request id it was handed.
C26_HandedRequestIsAmbientContext ==
  \A p \in Units :
    /\ pc[p] = "handler" =>
         /\ handed[p].requestId = store[p][1].requestId
         /\ handed[p].startTime = store[p][1].startTime
         /\ handed[p].attributes = store[p][1].attributes
    /\ pc[p] = "done" /\ terminal[p] # <<>> =>
         Field(TerminalEvent(p), "request_id") = handed[p].requestId

\* C27: a write made in the scope of one withRequestContext call changes
\* the context of no other call and never the caller's initialAttributes
\* object; a context never shows a value written in another scope.
C27_NoSharedAttributeStorage ==
  /\ [][/\ options' = options
        /\ \A b \in Units : \A value \in WriteValues(b) :
             ScopedWrite(b, "k", value) =>
               \A x \in Branches \ {b} : store'[x] = store[x]]_vars
  /\ [](\A b \in Units : \A i \in 1..Len(store[b]) :
          \A k \in DOMAIN store[b][i].attributes :
            store[b][i].attributes[k].by \in {b, "sys"})

\* C28: whatever attributes the context has accumulated, when the handler
\* returned status s and the wrapper resolved, the terminal event has
\* status_code s and the level of the status tiering, and in development,
\* where the console sink is active, it was written to that level's channel.
C28_AttributesNeverMaskEventFields ==
  \A p \in Units :
    (pc[p] = "done" /\ handled[p].kind = "returned"
       /\ result[p] = Resolved(handled[p].status)) =>
      /\ terminal[p] # <<>>
      /\ Field(TerminalEvent(p), "status_code") = Num(handled[p].status)
      /\ Field(TerminalEvent(p), "level") = Str(LevelForStatus(handled[p].status))
      /\ nodeEnv = "development" =>
           \E i \in DOMAIN console[p] :
             console[p][i] = [channel |-> ConsoleChannel(LevelForStatus(handled[p].status)),
                              event |-> TerminalEvent(p)]

\* The last facade call of p built an event with the level it was called
\* with and returned; OnConsole: that event was written to the console.
LoggedCleanly(p) ==
  /\ lastCall[p].event # <<>>
  /\ ~lastCall[p].raised
  /\ Field(lastCall[p].event, "level") = Str(lastCall[p].level)

OnConsole(p) == \E i \in DOMAIN console[p] : console[p][i].event = lastCall[p].event

\* C29: in every environment configuration, an event that emitLog kept from
\* the console, to send it to the OTLP logger instead, was sent in a
\* configuration in which initializeOTel registered a log exporter.
C29_RemoteOnlyWhenExporterInstalled ==
  \A p \in Units :
    (LoggedCleanly(p) /\ ~OnConsole(p)) => LogExporterInstalled

\* The event the Logger emitted in this step: handed to axiom.ingest when
\* the client exists, written to the console otherwise.
EmittedEvent ==
  IF axiom THEN axIngest'[Len(axIngest')].event ELSE axConsole'[Len(axConsole')].event

\* C30: the event emitted by a call of debug, info, warn, error or fatal has
\* the level of that method, the message of the call and the clock value of
\* the call as its timestamp, whatever the initial context and the addContext
\* calls made before.
C30_EventCarriesLevelMessageAndTime ==
  [][\A level \in LogLevels, context \in CallContexts, hasError \in BOOLEAN,
        ingestOk \in BOOLEAN :
       LoggerLog(level, context, hasError, ingestOk) =>
         /\ Field(EmittedEvent, "level") = Str(level)
         /\ Field(EmittedEvent, "message") = Str("msg")
         /\ Field(EmittedEvent, "timestamp") = Num(axOps')]_vars

====
